---- MODULE Spec2Model ----
(***************************************************************************)
(* Model of pkg/awsmod/batch.go: the batched S3 object deletion engine     *)
(* (BatchDelete.Delete, deleteBatch, hasParity) and its two candidate      *)
(* sources (DeleteObjectsIterator, DeleteListIterator).                    *)
(*                                                                         *)
(* Go pointers and error values that may be nil are modelled as            *)
(* sequences of length 0 (nil) or 1 (a pointer to the value).              *)
(***************************************************************************)
EXTENDS Integers, Sequences, FiniteSets, TLC

VARIABLES
    BatchSize,  \* d.BatchSize
    opts,       \* the request-option functions passed to Delete
    iter,       \* the BatchDeleteIterator passed to Delete
    pc,         \* position of Delete's thread of control
    o,          \* Delete's local o (current candidate), nil before the first
    input,      \* Delete's local input, a pointer to the open request
    objects,    \* Delete's local objects ([]BatchDeleteObject)
    parity,     \* Delete's local parity
    errs,       \* Delete's local errs ([]Error)
    final,      \* TRUE when deleteBatch runs from the call after the loop
    batchErrs,  \* deleteBatch's local errs
    hookIdx,    \* deleteBatch's position in "for _, object := range objects"
    result,     \* Delete's return value: nil or a pointer to a BatchError
    trace,      \* observable events, in order: Next results, calls, hooks
    faults,     \* failures the remote and the hooks have produced so far
    remote,     \* the (Code, Message) pairs the remote puts in a reported error
    ctx,        \* the context passed to Delete
    run,        \* how many times Delete has been invoked on iter
    past,       \* the events of the earlier invocations, in order
    rebuild,    \* TRUE when a later invocation gets a new iterator over the
                \* same candidates, FALSE when it gets the same iterator
    svc,        \* the RAM service: the pages of resource shares it lists
    params,     \* List's local params (the GetResourceSharesInput)
    resources,  \* List's local resources
    share,      \* the RAMResourceShare a method is called on (its receiver
                \* r), nil if none
    ramPc,      \* position of the thread of control in the RAM adapter
    ramRet,     \* what the RAM adapter's operation returned, nil before
    ramCalls,   \* the requests the RAM service has received, in order
    r53,        \* the Route53 Resolver resource Remove is called on (its
                \* receiver r), nil if none
    r53Done,    \* Remove's position: the dependents its loops are through
    r53Pc,      \* position of the thread of control in the Route53 adapter
    r53Ret,     \* what Remove returned, nil before
    r53Calls    \* the requests the Route53 Resolver service has received,
                \* in order, each with the error it answered

ramVars == <<svc, params, resources, share, ramPc, ramRet, ramCalls>>

r53Vars == <<r53, r53Done, r53Pc, r53Ret, r53Calls>>

vars == <<BatchSize, opts, iter, pc, o, input, objects, parity, errs, final,
          batchErrs, hookIdx, result, trace, faults, remote, ctx, run, past,
          rebuild, ramVars, r53Vars>>

----------------------------------------------------------------------------
(* Pointers *)

Nil == << >>
Ptr(v) == <<v>>
Deref(p) == p[1]

----------------------------------------------------------------------------
(* Bounds of the model *)

MaxObjects == 3      \* longest static candidate list
MaxPages == 2        \* most listing pages behind a DeleteListIterator
MaxFaults == 2       \* most failures (failed calls, reported keys, failed hooks)
                     \* the remote and the hooks produce
MaxRuns == 2         \* most invocations of Delete on one iterator

\* Number of objects a listing page may hold.
PageLens == 0..2

\* batchSize arguments given to NewBatchDeleteWithClient.
BatchSizeArgs == {-1, 0, 1, 2}

----------------------------------------------------------------------------
(* Program constants *)

DefaultBatchSize == 1000
ErrDeleteBatchFailCode == "DeleteBatchError"
errDefaultDeleteBatchMessage == "failed to delete"

----------------------------------------------------------------------------
(* Errors *)

\* Error values; awserr.New(code, msg, nil) at batch.go:416.
awserrNew(code, message) == [Code |-> code, Message |-> message]

\* The error a DeleteObjects call returns when it fails wholesale.
RequestError == awserrNew("RequestError", "send request failed")
\* The error a failing After hook returns.
HookError == awserrNew("HookError", "after hook failed")
\* The error of a call whose context is cancelled.
CanceledError == awserrNew("RequestCanceled", "request context canceled")
\* The error a failing listing page fetch returns.
ListError == awserrNew("ListError", "list objects failed")

newError(err, bucket, key) == [OrigErr |-> err, Bucket |-> bucket, Key |-> key]

NewBatchError(code, message, err) ==
    Ptr([Errors |-> err, code |-> code, message |-> message])

----------------------------------------------------------------------------
(* Candidates *)

\* The fields of s3.DeleteObjectInput that batch.go reads, and whether the
\* candidate carries an After hook.
Kind(bucket, mfa, payer, version, after) ==
    [Bucket |-> bucket, MFA |-> mfa, RequestPayer |-> payer,
     VersionId |-> version, After |-> after]

\* Candidates with and without hook and version id, in two buckets.
ObjectKinds ==
    { Kind(Ptr("A"), Nil, "", Nil, FALSE),
      Kind(Ptr("A"), Nil, "", Ptr("v1"), TRUE),
      Kind(Ptr("B"), Nil, "", Nil, TRUE) }

\* Candidates that differ in bucket, in MFA token or in request-payer mode.
ParityKinds ==
    { Kind(Ptr("A"), Nil, "", Nil, FALSE),
      Kind(Ptr("B"), Nil, "", Nil, FALSE),
      Kind(Ptr("A"), Ptr("123456"), "", Nil, FALSE),
      Kind(Ptr("A"), Nil, "requester", Nil, FALSE) }

BatchDeleteObject(kind, key) ==
    [Object |-> [Bucket |-> kind.Bucket, Key |-> Ptr(key),
                 VersionId |-> kind.VersionId, MFA |-> kind.MFA,
                 RequestPayer |-> kind.RequestPayer],
     After |-> kind.After]

\* Static candidate lists over the kinds: the i-th candidate has key i.
ListsOf(kinds) ==
    UNION { { [i \in 1..n |-> BatchDeleteObject(ks[i], i)] :
              ks \in [1..n -> kinds] } : n \in 0..MaxObjects }

StaticLists == ListsOf(ObjectKinds)

\* Listings: page p holds the objects with keys 10*p + 1 .. 10*p + its length.
Listings ==
    UNION { { [p \in 1..n |-> [j \in 1..lens[p] |-> [Key |-> Ptr(10 * p + j)]]] :
              lens \in [1..n -> PageLens] } : n \in 1..MaxPages }

----------------------------------------------------------------------------
(* Candidate sources *)

NewDeleteObjectsIterator(list) ==
    [kind |-> "static", Objects |-> list, index |-> 0, inc |-> FALSE,
     Bucket |-> Nil, pages |-> << >>, fetched |-> 0, objects |-> << >>,
     err |-> Nil]

NewDeleteListIterator(bucket, listing) ==
    [kind |-> "list", Objects |-> << >>, index |-> 0, inc |-> FALSE,
     Bucket |-> bucket, pages |-> listing, fetched |-> 0, objects |-> << >>,
     err |-> Nil]

\* StaticNext advancing the index on the first call too.
StaticNextAlwaysInc(it) ==
    LET it1 == [it EXCEPT !.index = @ + 1, !.inc = TRUE]
    IN  { [iter |-> it1, ok |-> it1.index < Len(it1.Objects)] }

\* DeleteObjectsIterator.Next: the iterator after the call and the result.
StaticNext(it) ==
    LET it1 == IF it.inc THEN [it EXCEPT !.index = @ + 1]
                         ELSE [it EXCEPT !.inc = TRUE]
    IN  { [iter |-> it1, ok |-> it1.index < Len(it1.Objects)] }

\* s3.ListObjectsV2Paginator.HasMorePages: true before the first page and
\* while the last page fetched was truncated.
HasMorePages(it) == it.fetched < Len(it.pages)

\* ListNext losing the error of a failed page fetch.
ListNextNoErr(it) ==
    LET it1 == IF Len(it.objects) > 0 THEN [it EXCEPT !.objects = Tail(@)]
                                      ELSE it
    IN  IF Len(it.objects) > 0 /\ Len(it1.objects) > 0
        THEN { [iter |-> it1, ok |-> TRUE] }
        ELSE IF ~HasMorePages(it1)
        THEN { [iter |-> it1, ok |-> FALSE] }
        ELSE { [iter |-> it1, ok |-> FALSE],
               [iter |-> [it1 EXCEPT !.fetched = @ + 1,
                                     !.objects = it1.pages[it1.fetched + 1]],
                ok |-> Len(it1.pages[it1.fetched + 1]) > 0] }

\* DeleteListIterator.Next: the possible outcomes (a page fetch may fail).
ListNext(it) ==
    LET it1 == IF Len(it.objects) > 0 THEN [it EXCEPT !.objects = Tail(@)]
                                      ELSE it
    IN  IF Len(it.objects) > 0 /\ Len(it1.objects) > 0
        THEN { [iter |-> it1, ok |-> TRUE] }
        ELSE IF ~HasMorePages(it1)
        THEN { [iter |-> it1, ok |-> FALSE] }
        ELSE { [iter |-> [it1 EXCEPT !.err = Ptr(ListError)], ok |-> FALSE],
               [iter |-> [it1 EXCEPT !.fetched = @ + 1,
                                     !.objects = it1.pages[it1.fetched + 1]],
                ok |-> Len(it1.pages[it1.fetched + 1]) > 0] }

IterNext(it) == IF it.kind = "static" THEN StaticNext(it) ELSE ListNext(it)

\* Err of either iterator.
IterErr(it) == IF it.kind = "static" THEN Nil ELSE it.err

\* DeleteObject of either iterator.
IterDeleteObject(it) ==
    IF it.kind = "static"
    THEN it.Objects[it.index + 1]
    ELSE [Object |-> [Bucket |-> it.Bucket, Key |-> it.objects[1].Key,
                      VersionId |-> Nil, MFA |-> Nil, RequestPayer |-> ""],
          After |-> FALSE]

----------------------------------------------------------------------------
(* BatchDelete *)

NewBatchDeleteWithClient(batchSize) ==
    IF batchSize # -1 THEN batchSize ELSE DefaultBatchSize

initDeleteObjectsInput(obj) ==
    [Bucket |-> obj.Bucket, MFA |-> obj.MFA, RequestPayer |-> obj.RequestPayer,
     Delete |-> [Objects |-> << >>]]

\* Comparison of two *string as hasParity makes it: by value when both are
\* non-nil, by pointer otherwise (equal only when both are nil).
SamePtr(p1, p2) ==
    IF p1 # Nil /\ p2 # Nil THEN Deref(p1) = Deref(p2)
    ELSE p1 = Nil /\ p2 = Nil

\* hasParity without the comparison of the MFA tokens.
hasParityNoMFA(o1, o2) ==
    SamePtr(o1.Bucket, o2.Object.Bucket)
    /\ o1.RequestPayer = o2.Object.RequestPayer

\* hasParity granting parity only to a request without members.
hasParityEmptyOnly(o1, o2) ==
    /\ SamePtr(o1.Bucket, o2.Object.Bucket)
    /\ SamePtr(o1.MFA, o2.Object.MFA)
    /\ o1.RequestPayer = o2.Object.RequestPayer
    /\ o1.Delete.Objects = << >>

\* hasParity comparing the MFA tokens by value alone, an absent token
\* counting as the empty one.
hasParityMFAByValue(o1, o2) ==
    SamePtr(o1.Bucket, o2.Object.Bucket)
    /\ (IF o1.MFA = Nil THEN "" ELSE Deref(o1.MFA))
         = (IF o2.Object.MFA = Nil THEN "" ELSE Deref(o2.Object.MFA))
    /\ o1.RequestPayer = o2.Object.RequestPayer

hasParity(o1, o2) ==
    IF ~SamePtr(o1.Bucket, o2.Object.Bucket) THEN FALSE
    ELSE IF ~SamePtr(o1.MFA, o2.Object.MFA) THEN FALSE
    ELSE IF o1.RequestPayer # "" /\ o2.Object.RequestPayer # ""
         THEN o1.RequestPayer = o2.Object.RequestPayer
         ELSE o1.RequestPayer = o2.Object.RequestPayer

\* The request-option functions the model passes to Delete: each overwrites
\* one field of the request.
OptionSets ==
    { << >>,
      << [field |-> "Bucket", value |-> Ptr("B")] >>,
      << [field |-> "MFA", value |-> Ptr("123456")] >>,
      << [field |-> "RequestPayer", value |-> "requester"] >> }

ApplyOption(opt, in) ==
    IF opt.field = "Bucket" THEN [in EXCEPT !.Bucket = opt.value]
    ELSE IF opt.field = "MFA" THEN [in EXCEPT !.MFA = opt.value]
    ELSE [in EXCEPT !.RequestPayer = opt.value]

RECURSIVE ApplyOptions(_, _)
\* for _, opt := range opts { opt(input) }
ApplyOptions(os, in) ==
    IF os = << >> THEN in ELSE ApplyOptions(Tail(os), ApplyOption(Head(os), in))

\* ObjectIdentifier leaving the version id out.
ObjectIdentifierNoVersion(obj) == [Key |-> obj.Key, VersionId |-> Nil]

ObjectIdentifier(obj) == [Key |-> obj.Key, VersionId |-> obj.VersionId]

\* ResetObjects leaving the flushed candidates in the slice.
ResetObjectsKeep(objs) == objs

\* objects = objects[:0] after a flush inside the loop.
ResetObjects(objs) == << >>

\* SeedInput going on with the request that was just sent.
SeedInputKeep(os, obj) ==
    [ApplyOptions(os, Deref(input))
        EXCEPT !.Delete.Objects = Append(@, ObjectIdentifier(obj.Object))]

\* SeedInput leaving the candidate out of the request's members.
SeedInputNoMember(os, obj) ==
    ApplyOptions(os, initDeleteObjectsInput(obj.Object))

\* The request re-opened for the candidate that broke parity.
SeedInput(os, obj) ==
    [ApplyOptions(os, initDeleteObjectsInput(obj.Object))
        EXCEPT !.Delete.Objects = Append(@, ObjectIdentifier(obj.Object))]

\* FlushNow flushing only once the batch has grown past the batch size.
FlushNowLate(in, batchSize, par) == Len(in.Delete.Objects) > batchSize \/ ~par

\* The flush condition of Delete's loop.
FlushNow(in, batchSize, par) == Len(in.Delete.Objects) = batchSize \/ ~par

\* CallFailureErrors recording the failure once for the whole batch.
CallFailureErrorsOnce(in, err) ==
    << newError(err, in.Bucket, in.Delete.Objects[1].Key) >>

\* deleteBatch: the errors recorded when DeleteObjects returns err.
CallFailureErrors(in, err) ==
    [i \in 1..Len(in.Delete.Objects) |->
        newError(err, in.Bucket, in.Delete.Objects[i].Key)]

\* ResponseErrors recording only the first reported key.
ResponseErrorsFirstOnly(in, resErrors) ==
    [i \in 1..(IF Len(resErrors) > 0 THEN 1 ELSE 0) |->
        newError(awserrNew(IF resErrors[i].Code # Nil THEN Deref(resErrors[i].Code)
                           ELSE ErrDeleteBatchFailCode,
                           IF resErrors[i].Message # Nil
                           THEN Deref(resErrors[i].Message)
                           ELSE errDefaultDeleteBatchMessage),
                 in.Bucket, resErrors[i].Key)]

\* ResponseErrors taking the default code when the message is missing.
ResponseErrorsSwapped(in, resErrors) ==
    [i \in 1..Len(resErrors) |->
        LET msg == IF resErrors[i].Message # Nil THEN Deref(resErrors[i].Message)
                   ELSE errDefaultDeleteBatchMessage
            code == IF resErrors[i].Message # Nil /\ resErrors[i].Code # Nil
                    THEN Deref(resErrors[i].Code)
                    ELSE ErrDeleteBatchFailCode
        IN  newError(awserrNew(code, msg), in.Bucket, resErrors[i].Key)]

\* deleteBatch: the errors recorded for the Errors of a successful response.
ResponseErrors(in, resErrors) ==
    [i \in 1..Len(resErrors) |->
        LET msg == IF resErrors[i].Message # Nil THEN Deref(resErrors[i].Message)
                   ELSE errDefaultDeleteBatchMessage
            code == IF resErrors[i].Code # Nil THEN Deref(resErrors[i].Code)
                    ELSE ErrDeleteBatchFailCode
        IN  newError(awserrNew(code, msg), in.Bucket, resErrors[i].Key)]

\* HookFailureError recording the failure without the candidate's key.
HookFailureErrorNoKey(err, object) ==
    newError(err, object.Object.Bucket, Nil)

\* deleteBatch: the error recorded for a failing After hook.
HookFailureError(err, object) ==
    newError(err, object.Object.Bucket, object.Object.Key)

\* deleteBatch's range over objects visiting them last to first.
HookObjectReversed(objs, idx) == objs[Len(objs) + 1 - idx]

\* deleteBatch: the idx-th candidate of "for _, object := range objects".
HookObject(objs, idx) == objs[idx]

\* IterationError recording the listing's bucket with the failure.
IterationErrorWithBucket(err) == newError(err, Ptr("A"), Nil)

\* Delete: the error recorded when iter.Err() is non-nil.
IterationError(err) == newError(err, Nil, Nil)

----------------------------------------------------------------------------
(* The remote: what one DeleteObjects call may answer *)

\* The (Code, Message) pairs of a reported error: each may be absent.
AllPatterns ==
    { [Code |-> c, Message |-> g] :
        c \in {Nil, Ptr("AccessDenied")}, g \in {Nil, Ptr("Access Denied")} }

FullPattern == { [Code |-> Ptr("AccessDenied"), Message |-> Ptr("Access Denied")] }

\* The responses' Errors: at most max of the request's keys, in request
\* order, each with one of the patterns.
ErrorLists(members, max, patterns) ==
    UNION { { [i \in 1..n |-> [Key |-> members[ix[i]].Key, Code |-> ps[i].Code,
                               Message |-> ps[i].Message]] :
                ix \in { f \in [1..n -> 1..Len(members)] :
                            \A i, j \in 1..n : i < j => f[i] < f[j] },
                ps \in [1..n -> patterns] } :
            n \in 0..max }

\* What a call may answer when the remote may still produce budget failures.
DeleteObjectsOutcomes(in, budget, patterns) ==
    { [err |-> Ptr(RequestError), Errors |-> << >>] : b \in 1..budget } \cup
    { [err |-> Nil, Errors |-> es] :
        es \in ErrorLists(in.Delete.Objects, budget, patterns) }

\* The contexts Delete can be given: one that is never cancelled
\* (context.Background()), one that can still be cancelled, a cancelled one.
Contexts == {"background", "live", "cancelled"}

\* d.Client.DeleteObjects(ctx, input): under a cancelled context the call
\* fails; a live context may be cancelled while the call is in flight, and
\* the call then fails with the context's error.
CallOutcomes(in, budget, patterns, c) ==
    IF c = "cancelled"
    THEN { [err |-> Ptr(CanceledError), Errors |-> << >>, ctx |-> c] }
    ELSE { [err |-> r.err, Errors |-> r.Errors, ctx |-> c] :
             r \in DeleteObjectsOutcomes(in, budget, patterns) } \cup
         { [err |-> Ptr(CanceledError), Errors |-> << >>, ctx |-> "cancelled"] :
             x \in { c } \cap { "live" } }

\* HooksDone expecting one more candidate than the batch holds.
HooksDoneOneMore(idx, objs) == idx > Len(objs) + 1

\* deleteBatch: "for _, object := range objects" has gone through objects.
HooksDone(idx, objs) == idx > Len(objs)

\* The open batch never being sent after the loop.
OpenBatchPendingNever(in) == FALSE

\* The open batch being sent only when the source reported no error.
OpenBatchPendingNoError(in) ==
    in # Nil /\ Len(Deref(in).Delete.Objects) > 0 /\ IterErr(iter) = Nil

\* Delete, after the loop: is there an open batch left to send?
OpenBatchPending(in) == in # Nil /\ Len(Deref(in).Delete.Objects) > 0

\* A batch's errors put in front of the errors collected so far.
PrependErrors(es, batch) == batch \o es

\* Delete: errs = append(errs, err...) with the errors deleteBatch returned.
AppendErrors(es, batch) == es \o batch

\* Delete returning a BatchError whatever was collected.
ReturnValueAlways(es) ==
    NewBatchError("BatchedDeleteIncomplete",
                  "some objects have failed to be deleted.", es)

\* Delete's return value for the collected errs.
ReturnValue(es) ==
    IF Len(es) > 0
    THEN NewBatchError("BatchedDeleteIncomplete",
                       "some objects have failed to be deleted.", es)
    ELSE Nil

----------------------------------------------------------------------------
(* State machine *)

InitBatch(sizes, optionSets, iters, patterns, contexts, rebuilds) ==
    /\ remote = patterns
    /\ rebuild \in rebuilds
    /\ ctx \in contexts
    /\ run = 1
    /\ past = << >>
    /\ BatchSize \in { NewBatchDeleteWithClient(b) : b \in sizes }
    /\ opts \in optionSets
    /\ iter \in iters
    /\ pc = "next"
    /\ o = Nil
    /\ input = Nil
    /\ objects = << >>
    /\ parity = TRUE
    /\ errs = << >>
    /\ final = FALSE
    /\ batchErrs = << >>
    /\ hookIdx = 0
    /\ result = Nil
    /\ trace = << >>
    /\ faults = 0

\* No operation of the RAM adapter is running.
RAMIdle ==
    /\ svc = << >>
    /\ params = Nil
    /\ resources = << >>
    /\ share = Nil
    /\ ramPc = "idle"
    /\ ramRet = Nil
    /\ ramCalls = << >>

\* No Remove of a Route53 Resolver resource is running.
R53Idle ==
    /\ r53 = Nil
    /\ r53Done = 0
    /\ r53Pc = "idle"
    /\ r53Ret = Nil
    /\ r53Calls = << >>

InitRuns(sizes, optionSets, iters, patterns, contexts, rebuilds) ==
    /\ InitBatch(sizes, optionSets, iters, patterns, contexts, rebuilds)
    /\ RAMIdle
    /\ R53Idle

InitCtx(sizes, optionSets, iters, patterns, contexts) ==
    InitRuns(sizes, optionSets, iters, patterns, contexts, {FALSE})

InitWith(sizes, optionSets, iters, patterns) ==
    InitCtx(sizes, optionSets, iters, patterns, {"background"})

StaticIterators == { NewDeleteObjectsIterator(l) : l \in StaticLists }
ListIterators == { NewDeleteListIterator(Ptr("A"), l) : l \in Listings }

NoOptions == { << >> }

Init ==
    InitWith(BatchSizeArgs, NoOptions, StaticIterators \cup ListIterators,
             FullPattern)

\* for iter.Next() { ... } : the loop condition.
LoopNext ==
    /\ pc = "next"
    /\ \E r \in IterNext(iter) :
         /\ iter' = r.iter
         /\ pc' = IF r.ok THEN "body" ELSE "drain"
         /\ trace' = IF r.ok THEN trace ELSE Append(trace, [type |-> "end"])
    /\ UNCHANGED <<BatchSize, opts, o, input, objects, parity, errs, final,
                   batchErrs, hookIdx, result, faults, remote, ctx, run,
                   past, rebuild, ramVars, r53Vars>>

\* The loop body up to the flush condition.
LoopBody ==
    /\ pc = "body"
    /\ LET obj == IterDeleteObject(iter)
           in0 == IF input = Nil THEN initDeleteObjectsInput(obj.Object)
                                 ELSE Deref(input)
           in1 == ApplyOptions(opts, in0)
           par == hasParity(in1, obj)
           in2 == IF par
                  THEN [in1 EXCEPT !.Delete.Objects =
                                      Append(@, ObjectIdentifier(obj.Object))]
                  ELSE in1
       IN  /\ o' = Ptr(obj)
           /\ parity' = par
           /\ input' = Ptr(in2)
           /\ objects' = IF par THEN Append(objects, obj) ELSE objects
           /\ trace' = Append(trace, [type |-> "object", object |-> obj])
           /\ IF FlushNow(in2, BatchSize, par)
              THEN pc' = "call" /\ final' = FALSE
              ELSE pc' = "next" /\ final' = final
    /\ UNCHANGED <<BatchSize, opts, iter, errs, batchErrs, hookIdx, result,
                   faults, remote, ctx, run,
                   past, rebuild, ramVars, r53Vars>>

\* deleteBatch: the DeleteObjects call and the errors recorded for it.
DeleteObjectsCall ==
    /\ pc = "call"
    /\ \E res \in CallOutcomes(Deref(input), MaxFaults - faults, remote, ctx) :
         /\ ctx' = res.ctx
         /\ faults' = faults + (IF res.err = Ptr(RequestError) THEN 1
                                ELSE Len(res.Errors))
         /\ batchErrs' = IF res.err # Nil
                         THEN CallFailureErrors(Deref(input), Deref(res.err))
                         ELSE ResponseErrors(Deref(input), res.Errors)
         /\ trace' = Append(trace, [type |-> "call", input |-> Deref(input),
                                    err |-> res.err, Errors |-> res.Errors,
                                    objects |-> objects])
    /\ hookIdx' = 1
    /\ pc' = "hooks"
    /\ UNCHANGED <<BatchSize, opts, iter, o, input, objects, parity, errs,
                   final, result, remote, run, past,
                   rebuild, ramVars, r53Vars>>

\* deleteBatch: one iteration of the loop over objects.
RunHook ==
    /\ pc = "hooks"
    /\ hookIdx <= Len(objects)
    /\ LET object == HookObject(objects, hookIdx)
       IN  IF ~object.After
           THEN UNCHANGED <<batchErrs, trace, faults>>
           ELSE \E failed \in {FALSE} \cup {faults < MaxFaults} :
                  /\ faults' = faults + (IF failed THEN 1 ELSE 0)
                  /\ batchErrs' = IF failed
                                  THEN Append(batchErrs,
                                              HookFailureError(HookError, object))
                                  ELSE batchErrs
                  /\ trace' = Append(trace, [type |-> "hook", object |-> object,
                                             failed |-> failed])
    /\ hookIdx' = hookIdx + 1
    /\ UNCHANGED <<BatchSize, opts, iter, pc, o, input, objects, parity, errs,
                   final, result, remote, ctx, run,
                   past, rebuild, ramVars, r53Vars>>

\* deleteBatch returns inside the loop: the rest of the loop body.
LoopFlushed ==
    /\ pc = "hooks"
    /\ HooksDone(hookIdx, objects)
    /\ ~final
    /\ errs' = AppendErrors(errs, batchErrs)
    /\ IF ~parity
       THEN /\ objects' = Append(ResetObjects(objects), Deref(o))
            /\ input' = Ptr(SeedInput(opts, Deref(o)))
       ELSE /\ objects' = ResetObjects(objects)
            /\ input' = Nil
    /\ batchErrs' = << >>
    /\ hookIdx' = 0
    /\ pc' = "next"
    /\ UNCHANGED <<BatchSize, opts, iter, o, parity, final, result, trace,
                   faults, remote, ctx, run,
                   past, rebuild, ramVars, r53Vars>>

\* After the loop: iter.Err() and the decision to send the open batch.
Drain ==
    /\ pc = "drain"
    /\ errs' = IF IterErr(iter) # Nil
               THEN Append(errs, IterationError(Deref(IterErr(iter))))
               ELSE errs
    /\ IF OpenBatchPending(input)
       THEN pc' = "call" /\ final' = TRUE
       ELSE pc' = "return" /\ final' = final
    /\ UNCHANGED <<BatchSize, opts, iter, o, input, objects, parity, batchErrs,
                   hookIdx, result, trace, faults, remote, ctx, run,
                   past, rebuild, ramVars, r53Vars>>

\* deleteBatch returns after the loop.
FinalFlushed ==
    /\ pc = "hooks"
    /\ HooksDone(hookIdx, objects)
    /\ final
    /\ errs' = AppendErrors(errs, batchErrs)
    /\ batchErrs' = << >>
    /\ hookIdx' = 0
    /\ pc' = "return"
    /\ UNCHANGED <<BatchSize, opts, iter, o, input, objects, parity, final,
                   result, trace, faults, remote, ctx, run,
                   past, rebuild, ramVars, r53Vars>>

\* Delete returns.
Return ==
    /\ pc = "return"
    /\ result' = ReturnValue(errs)
    /\ pc' = "done"
    /\ UNCHANGED <<BatchSize, opts, iter, o, input, objects, parity, errs,
                   final, batchErrs, hookIdx, trace, faults, remote, ctx, run,
                   past, rebuild, ramVars, r53Vars>>

\* A new iterator over the candidates it was built from.
Rebuilt(it) ==
    IF it.kind = "static" THEN NewDeleteObjectsIterator(it.Objects)
                          ELSE NewDeleteListIterator(it.Bucket, it.pages)

\* Delete is invoked again, with the iterator of the invocation that
\* returned or with a new iterator over the same candidates.
Restart ==
    /\ pc = "done"
    /\ run < MaxRuns
    /\ run' = run + 1
    /\ iter' = IF rebuild THEN Rebuilt(iter) ELSE iter
    /\ past' = past \o trace \o << [type |-> "return", result |-> result] >>
    /\ trace' = << >>
    /\ pc' = "next"
    /\ o' = Nil
    /\ input' = Nil
    /\ objects' = << >>
    /\ parity' = TRUE
    /\ errs' = << >>
    /\ final' = FALSE
    /\ batchErrs' = << >>
    /\ hookIdx' = 0
    /\ result' = Nil
    /\ UNCHANGED <<BatchSize, opts, faults, remote, ctx, rebuild, ramVars, r53Vars>>

Next ==
    \/ LoopNext
    \/ LoopBody
    \/ DeleteObjectsCall
    \/ RunHook
    \/ LoopFlushed
    \/ Drain
    \/ FinalFlushed
    \/ Return
    \/ Restart

Spec == Init /\ [][Next]_vars

\* A step of Delete itself (not of its caller).
DeleteStep ==
    \/ LoopNext
    \/ LoopBody
    \/ DeleteObjectsCall
    \/ RunHook
    \/ LoopFlushed
    \/ Drain
    \/ FinalFlushed
    \/ Return

\* Delete keeps running: every remote call and every hook returns, and the
\* goroutine that runs Delete is scheduled.
InitLive ==
    InitWith({0, 2}, NoOptions, StaticIterators \cup ListIterators, FullPattern)

SpecLive == InitLive /\ [][Next]_vars /\ WF_vars(DeleteStep)

\* Candidates that all share bucket, MFA and request-payer, against a remote
\* whose reported errors may lack the code, the message or both.
UniformKinds == { k \in ObjectKinds : k.Bucket = Ptr("A") /\ k.MFA = Nil /\ k.RequestPayer = "" }

UniformLists == ListsOf(UniformKinds)

InitErrors ==
    InitWith(BatchSizeArgs, NoOptions,
             { NewDeleteObjectsIterator(l) : l \in UniformLists },
             AllPatterns)

SpecErrors == InitErrors /\ [][Next]_vars

\* Static lists whose candidates differ in bucket, MFA token and
\* request-payer mode.
InitParity ==
    InitWith(BatchSizeArgs, NoOptions,
             { NewDeleteObjectsIterator(l) : l \in ListsOf(ParityKinds) },
             FullPattern)

SpecParity == InitParity /\ [][Next]_vars

\* Delete under a context that is cancelled while a DeleteObjects call is in
\* flight.
InitCancel ==
    InitCtx(BatchSizeArgs, NoOptions,
            { NewDeleteObjectsIterator(l) : l \in UniformLists }
                \cup ListIterators,
            FullPattern, {"live"})

SpecCancel == InitCancel /\ [][Next]_vars

\* Delete given request-option functions that overwrite a field of the
\* request, over static lists whose candidates differ in bucket and MFA
\* token.
InitOpts ==
    InitWith({1, 2}, OptionSets,
             { NewDeleteObjectsIterator(l) :
                 l \in ListsOf({ k \in ParityKinds : k.RequestPayer = "" }) },
             FullPattern)

SpecOpts == InitOpts /\ [][Next]_vars

\* Delete invoked repeatedly, each time with a new iterator over the same
\* static list.
InitAgain ==
    InitRuns({-1, 2}, NoOptions,
             { NewDeleteObjectsIterator(l) : l \in UniformLists },
             FullPattern, {"background"}, {TRUE})

SpecAgain == InitAgain /\ [][Next]_vars

----------------------------------------------------------------------------
(* hasParity on its own: one application to a request and a candidate *)

\* Requests under assembly: bucket and MFA token absent or present (the
\* token possibly empty), either request-payer mode, with or without a member.
ParityRequests ==
    { [Bucket |-> b, MFA |-> m, RequestPayer |-> p,
       Delete |-> [Objects |-> members]] :
      b \in {Nil, Ptr("A"), Ptr("B")},
      m \in {Nil, Ptr(""), Ptr("123456")},
      p \in {"", "requester"},
      members \in { << >>, << [Key |-> Ptr("k1"), VersionId |-> Nil] >> } }

\* Candidates over the same fields, with two keys and with or without a
\* version id.
ParityCandidates ==
    { BatchDeleteObject(Kind(b, m, p, v, FALSE), k) :
      b \in {Nil, Ptr("A"), Ptr("B")},
      m \in {Nil, Ptr(""), Ptr("123456")},
      p \in {"", "requester"},
      v \in {Nil, Ptr("v1")},
      k \in {"k1", "k2"} }

\* hasParity is about to be applied to a request and a candidate.
InitHasParity ==
    /\ input \in { Ptr(req) : req \in ParityRequests }
    /\ o \in { Ptr(obj) : obj \in ParityCandidates }
    /\ pc = "hasParity"
    /\ parity = TRUE
    /\ remote = FullPattern
    /\ rebuild = FALSE
    /\ ctx = "background"
    /\ run = 1
    /\ past = << >>
    /\ BatchSize = DefaultBatchSize
    /\ opts = << >>
    /\ iter = NewDeleteObjectsIterator(<< >>)
    /\ objects = << >>
    /\ errs = << >>
    /\ final = FALSE
    /\ batchErrs = << >>
    /\ hookIdx = 0
    /\ result = Nil
    /\ trace = << >>
    /\ faults = 0
    /\ RAMIdle
    /\ R53Idle

\* parity := hasParity(input, o)
ApplyHasParity ==
    /\ pc = "hasParity"
    /\ parity' = hasParity(Deref(input), Deref(o))
    /\ pc' = "parity"
    /\ UNCHANGED <<BatchSize, opts, iter, o, input, objects, errs, final,
                   batchErrs, hookIdx, result, trace, faults, remote, ctx,
                   run, past, rebuild, ramVars, r53Vars>>

NextHasParity == ApplyHasParity

SpecHasParity == InitHasParity /\ [][NextHasParity]_vars

----------------------------------------------------------------------------
(* resources/ram-resource-share.go: the RAM resource share adapter *)

MaxShares == 3       \* most resource shares in one RAM listing

\* ramtypes.ResourceShareStatus values the service reports.
ShareStatuses == {"ACTIVE", "DELETING", "DELETED"}

\* The i-th share of page p of a listing, with the given status.
ResourceShare(p, i, status) ==
    [Name |-> Ptr(<<"Share", p, i>>),
     OwningAccountId |-> Ptr("123456123456"),
     ResourceShareArn |-> Ptr(<<"arn:aws:ram", "123456123456", p, i>>),
     Status |-> status]

\* The statuses of the shares of one listing, in listing order.
ListedStatuses == UNION { [1..k -> ShareStatuses] : k \in 0..MaxShares }

\* The number of shares on each page of a listing of 1..MaxPages pages.
PageSizes == UNION { [1..n -> 0..MaxShares] : n \in 1..MaxPages }

RECURSIVE SharesUpTo(_, _)
\* The number of shares on the first p pages.
SharesUpTo(sizes, p) ==
    IF p = 0 THEN 0 ELSE sizes[p] + SharesUpTo(sizes, p - 1)

\* The listings of the service: at most MaxShares shares of any status,
\* spread over 1..MaxPages pages, some of which may be empty.
ShareListings ==
    { [p \in 1..Len(x[2]) |->
          [i \in 1..x[2][p] |->
              ResourceShare(p, i, x[1][SharesUpTo(x[2], p - 1) + i])]] :
      x \in { y \in ListedStatuses \X PageSizes :
                 SharesUpTo(y[2], Len(y[2])) = Len(y[1]) } }

\* The error of a GetResourceShares request that fails.
ThrottlingError == awserrNew("ThrottlingException", "Rate exceeded")

\* svc.GetResourceShares(ctx, params): the request fails, or answers the
\* page the token names (the first without a token), with a NextToken
\* unless the page is the last.
GetResourceShares(pages, in) ==
    LET p == IF in.NextToken = Nil THEN 1 ELSE Deref(in.NextToken)
    IN  { [resp |-> Nil, err |-> Ptr(ThrottlingError)],
          [resp |-> Ptr([ResourceShares |-> pages[p],
                         NextToken |-> IF p < Len(pages) THEN Ptr(p + 1)
                                                          ELSE Nil]),
           err |-> Nil] }

\* RAMResourceShareFromShare keeping the status of the first share listed.
RAMResourceShareStale(sh, first) ==
    [Name |-> sh.Name, OwningAccountID |-> sh.OwningAccountId,
     ResourceShareARN |-> sh.ResourceShareArn, Status |-> first.Status]

\* List: the RAMResourceShare built for a listed share (first is the first
\* share of the same response).
RAMResourceShareFromShare(sh, first) ==
    [Name |-> sh.Name, OwningAccountID |-> sh.OwningAccountId,
     ResourceShareARN |-> sh.ResourceShareArn, Status |-> sh.Status]

\* Filter passing every share that is not deleted.
FilterNotDeleted(res) ==
    IF res.Status = "DELETED"
    THEN Ptr(<<"RAM resource share status is ", res.Status, ", is not active">>)
    ELSE Nil

\* RAMResourceShare.Filter: the error it returns, nil for none.
Filter(res) ==
    IF res.Status # "ACTIVE"
    THEN Ptr(<<"RAM resource share status is ", res.Status, ", is not active">>)
    ELSE Nil

\* No Delete is running: the batch deletion engine stays at its entry.
BatchIdle ==
    InitBatch({1}, NoOptions, { NewDeleteObjectsIterator(<< >>) }, FullPattern,
              {"background"}, {FALSE})

InitList ==
    /\ BatchIdle
    /\ svc \in ShareListings
    /\ params = Ptr([ResourceOwner |-> "SELF", NextToken |-> Nil])
    /\ resources = << >>
    /\ share = Nil
    /\ ramPc = "List"
    /\ ramRet = Nil
    /\ ramCalls = << >>
    /\ R53Idle

\* RAMResourceShareLister.List: one iteration of its loop.
ListPage ==
    /\ ramPc = "List"
    /\ ramCalls' = Append(ramCalls, Deref(params))
    /\ \E res \in GetResourceShares(svc, Deref(params)) :
         IF res.err # Nil
         THEN /\ ramRet' = Ptr([resources |-> Nil, err |-> res.err])
              /\ ramPc' = "returned"
              /\ UNCHANGED <<resources, params>>
         ELSE LET resp == Deref(res.resp)
                  listed == [i \in 1..Len(resp.ResourceShares) |->
                               RAMResourceShareFromShare(resp.ResourceShares[i],
                                                         resp.ResourceShares[1])]
              IN  /\ resources' = resources \o listed
                  /\ IF resp.NextToken = Nil
                     THEN /\ ramRet' = Ptr([resources |-> resources', err |-> Nil])
                          /\ ramPc' = "returned"
                          /\ params' = params
                     ELSE /\ params' = Ptr([Deref(params) EXCEPT
                                               !.NextToken = resp.NextToken])
                          /\ UNCHANGED <<ramRet, ramPc>>
    /\ UNCHANGED <<svc, share>>
    /\ UNCHANGED <<BatchSize, opts, iter, pc, o, input, objects, parity, errs,
                   final, batchErrs, hookIdx, result, trace, faults, remote, ctx,
                   run, past, rebuild, r53Vars>>

\* The caller takes one of the listed resources and calls its Filter.
FilterListed ==
    /\ ramPc = "returned"
    /\ Deref(ramRet).err = Nil
    /\ \E i \in 1..Len(Deref(ramRet).resources) :
         /\ share' = Ptr(Deref(ramRet).resources[i])
         /\ ramRet' = Ptr([err |-> Filter(Deref(ramRet).resources[i])])
    /\ ramPc' = "filtered"
    /\ UNCHANGED <<svc, params, resources, ramCalls>>
    /\ UNCHANGED <<BatchSize, opts, iter, pc, o, input, objects, parity, errs,
                   final, batchErrs, hookIdx, result, trace, faults, remote, ctx,
                   run, past, rebuild, r53Vars>>

\* The errors a DeleteResourceShare request answers with: none, the share
\* is gone already, or the request is throttled.
ResourceArnNotFoundException ==
    awserrNew("ResourceArnNotFoundException", "resource share not found")

DeleteResourceShareOutcomes ==
    {Nil, Ptr(ResourceArnNotFoundException), Ptr(ThrottlingError)}

\* errors.As(err, &notFound) with notFound *ramtypes.ResourceArnNotFoundException
IsArnNotFound(err) == err.Code = "ResourceArnNotFoundException"

\* RAMResourceShare.Remove: what it returns when DeleteResourceShare has
\* answered err.
RemoveResult(err) ==
    IF err # Nil /\ ~IsArnNotFound(Deref(err))
    THEN err        \* return err inside the if
    ELSE err        \* return err at the end

\* The caller removes the resource its Filter has let through.
RAMResourceShareRemove ==
    /\ ramPc = "filtered"
    /\ Deref(ramRet).err = Nil
    /\ \E err \in DeleteResourceShareOutcomes :
         /\ ramCalls' = Append(ramCalls,
                               [ResourceShareArn |-> Deref(share).ResourceShareARN,
                                err |-> err])
         /\ ramRet' = Ptr([err |-> RemoveResult(err)])
    /\ ramPc' = "removed"
    /\ UNCHANGED <<svc, params, resources, share>>
    /\ UNCHANGED <<BatchSize, opts, iter, pc, o, input, objects, parity, errs,
                   final, batchErrs, hookIdx, result, trace, faults, remote, ctx,
                   run, past, rebuild, r53Vars>>

NextList ==
    \/ ListPage
    \/ FilterListed
    \/ RAMResourceShareRemove

SpecList == InitList /\ [][NextList]_vars

----------------------------------------------------------------------------
(* resources: Remove of the Route53 Resolver resources *)

MaxDependents == 2   \* most VPC associations, rules or resource associations

\* The errors a Route53 Resolver request answers with.
ResourceNotFoundException == [code |-> "ResourceNotFoundException"]
AccessDeniedException == [code |-> "AccessDeniedException"]

\* What a request returns as err: nil or one of the errors.
ResolverOutcomes ==
    {Nil, Ptr(ResourceNotFoundException), Ptr(AccessDeniedException)}

\* errors.As(err, &notFound) taking every error for a missing resource.
IsNotFoundAny(err) == TRUE

\* errors.As(err, &notFound) with notFound *r53rtypes.ResourceNotFoundException
IsNotFound(err) == err.code = "ResourceNotFoundException"

\* The i-th rule of a firewall rule group.
Route53ResolverFirewallRule(i) ==
    [Name |-> Ptr(<<"rule", i>>),
     FirewallDomainListID |-> Ptr(<<"rslvr-fdl", i>>),
     Qtype |-> Nil,
     FirewallThreatProtectionID |-> Nil]

\* Firewall rule groups with 0..MaxDependents VPC associations and rules.
Route53ResolverFirewallRuleGroups ==
    { [kind |-> "Route53ResolverFirewallRuleGroup",
       ID |-> Ptr("rslvr-frg-1"),
       vpcAssociationIds |-> [i \in 1..a |-> Ptr(<<"rslvr-frgassoc", i>>)],
       rules |-> [i \in 1..n |-> Route53ResolverFirewallRule(i)],
       resourceAssociationIds |-> << >>] :
      a \in 0..MaxDependents, n \in 0..MaxDependents }

\* Query log configs with 0..MaxDependents associated resources.
Route53ResolverQueryLogConfigs ==
    { [kind |-> "Route53ResolverQueryLogConfig",
       ID |-> Ptr("rslvr-qlc-1"),
       vpcAssociationIds |-> << >>,
       rules |-> << >>,
       resourceAssociationIds |-> [i \in 1..a |-> Ptr(<<"vpc", i>>)]] :
      a \in 0..MaxDependents }

\* Where Remove of the firewall rule group goes on after its first loop.
AfterVPCs(res) == IF res.rules = << >> THEN "group" ELSE "rules"

\* The first request of Remove: loops over nothing are passed at once.
RemoveEntry(res) ==
    IF res.kind = "Route53ResolverFirewallRuleGroup"
    THEN IF res.vpcAssociationIds # << >> THEN "vpcs" ELSE AfterVPCs(res)
    ELSE IF res.resourceAssociationIds # << >> THEN "resources" ELSE "config"

InitRemove ==
    /\ BatchIdle
    /\ RAMIdle
    /\ r53 \in { Ptr(res) : res \in Route53ResolverFirewallRuleGroups
                                    \cup Route53ResolverQueryLogConfigs }
    /\ r53Done = 0
    /\ r53Pc = RemoveEntry(Deref(r53))
    /\ r53Ret = Nil
    /\ r53Calls = << >>

\* One iteration of a loop of Remove over `items`: the request `req` for
\* the item has answered `err`; `after` is where Remove goes on past the loop.
LoopStep(items, req, err, after) ==
    /\ r53Calls' = Append(r53Calls, [op |-> req.op, input |-> req.input,
                                     err |-> err])
    /\ IF err # Nil /\ ~IsNotFound(Deref(err))
       THEN /\ r53Ret' = Ptr([err |-> err])
            /\ r53Pc' = "returned"
            /\ r53Done' = r53Done
       ELSE /\ r53Ret' = r53Ret
            /\ IF r53Done + 1 = Len(items)
               THEN r53Pc' = after /\ r53Done' = 0
               ELSE r53Pc' = r53Pc /\ r53Done' = r53Done + 1
    /\ UNCHANGED <<r53>>
    /\ UNCHANGED <<BatchSize, opts, iter, pc, o, input, objects, parity, errs,
                   final, batchErrs, hookIdx, result, trace, faults, remote, ctx,
                   run, past, rebuild, ramVars>>

\* The last request of Remove, whose error Remove returns.
LastStep(req, err) ==
    /\ r53Calls' = Append(r53Calls, [op |-> req.op, input |-> req.input,
                                     err |-> err])
    /\ r53Ret' = Ptr([err |-> err])
    /\ r53Pc' = "returned"
    /\ UNCHANGED <<r53, r53Done>>
    /\ UNCHANGED <<BatchSize, opts, iter, pc, o, input, objects, parity, errs,
                   final, batchErrs, hookIdx, result, trace, faults, remote, ctx,
                   run, past, rebuild, ramVars>>

\* Route53ResolverFirewallRuleGroup.Remove: "disassociate VPCs first".
DisassociateFirewallRuleGroup ==
    /\ r53Pc = "vpcs"
    /\ LET res == Deref(r53)
       IN  \E err \in ResolverOutcomes :
             LoopStep(res.vpcAssociationIds,
                      [op |-> "DisassociateFirewallRuleGroup",
                       input |-> [FirewallRuleGroupAssociationId |->
                                     res.vpcAssociationIds[r53Done + 1]]],
                      err, AfterVPCs(res))

\* Route53ResolverFirewallRuleGroup.Remove: "then remove rules".
DeleteFirewallRule ==
    /\ r53Pc = "rules"
    /\ LET res == Deref(r53)
           rule == res.rules[r53Done + 1]
       IN  \E err \in ResolverOutcomes :
             LoopStep(res.rules,
                      [op |-> "DeleteFirewallRule",
                       input |-> [FirewallRuleGroupId |-> res.ID,
                                  FirewallDomainListId |-> rule.FirewallDomainListID,
                                  FirewallThreatProtectionId |->
                                      rule.FirewallThreatProtectionID,
                                  Qtype |-> rule.Qtype]],
                      err, "group")

\* Route53ResolverFirewallRuleGroup.Remove: "finally delete the FRG".
DeleteFirewallRuleGroup ==
    /\ r53Pc = "group"
    /\ \E err \in ResolverOutcomes :
         LastStep([op |-> "DeleteFirewallRuleGroup",
                   input |-> [FirewallRuleGroupId |-> Deref(r53).ID]], err)

\* Route53ResolverQueryLogConfig.Remove: "disassociate resources (VPCs)".
DisassociateResolverQueryLogConfig ==
    /\ r53Pc = "resources"
    /\ LET res == Deref(r53)
       IN  \E err \in ResolverOutcomes :
             LoopStep(res.resourceAssociationIds,
                      [op |-> "DisassociateResolverQueryLogConfig",
                       input |-> [ResolverQueryLogConfigId |-> res.ID,
                                  ResourceId |->
                                      res.resourceAssociationIds[r53Done + 1]]],
                      err, "config")

\* Route53ResolverQueryLogConfig.Remove: "Delete QLC".
DeleteResolverQueryLogConfig ==
    /\ r53Pc = "config"
    /\ \E err \in ResolverOutcomes :
         LastStep([op |-> "DeleteResolverQueryLogConfig",
                   input |-> [ResolverQueryLogConfigId |-> Deref(r53).ID]], err)

NextRemove ==
    \/ DisassociateFirewallRuleGroup
    \/ DeleteFirewallRule
    \/ DeleteFirewallRuleGroup
    \/ DisassociateResolverQueryLogConfig
    \/ DeleteResolverQueryLogConfig

SpecRemove == InitRemove /\ [][NextRemove]_vars

----------------------------------------------------------------------------
(* Observations on the trace *)

Events(type) == SelectSeq(trace, LAMBDA e : e.type = type)

\* The DeleteObjects calls issued so far, in issue order.
Calls == Events("call")

\* The candidates the source has produced so far, in production order.
Produced == Events("object")

Members(call) == call.input.Delete.Objects

MemberKeys(call) == { Members(call)[i].Key : i \in 1..Len(Members(call)) }

\* The produced candidate with key k.
CandidateOfKey(k) ==
    (CHOOSE e \in { Produced[i] : i \in 1..Len(Produced) } :
        e.object.Object.Key = k).object

\* The Errors of Delete's result (none when it returned nil).
ResultErrors == IF result = Nil THEN << >> ELSE Deref(result).Errors

SameRequestFields(a, b) ==
    /\ a.Bucket = b.Bucket
    /\ a.MFA = b.MFA
    /\ a.RequestPayer = b.RequestPayer

\* All candidates produced so far share bucket, MFA and request-payer.
Uniform ==
    \A i \in 1..Len(Produced) :
        SameRequestFields(Produced[1].object.Object, Produced[i].object.Object)

RECURSIVE Flatten(_)
\* The concatenation of a sequence of sequences.
Flatten(ss) == IF ss = << >> THEN << >> ELSE Head(ss) \o Flatten(Tail(ss))

----------------------------------------------------------------------------
(* Claims *)

CeilDiv(n, b) == (n + b - 1) \div b

\* C1: for N candidates of uniform bucket, MFA and request-payer and a batch
\* size B >= 1, Delete issues exactly ceil(N/B) calls; every call but the last
\* has B members and the last has N mod B members, or B when B divides N.
C1_CallCount ==
    (pc = "done" /\ BatchSize >= 1 /\ Uniform) =>
        LET n == Len(Produced)
            b == BatchSize
        IN  /\ Len(Calls) = CeilDiv(n, b)
            /\ \A i \in 1..Len(Calls) :
                 Len(Members(Calls[i])) =
                    IF i < Len(Calls) THEN b
                    ELSE IF n % b = 0 THEN b ELSE n % b

\* Three uniform candidates and B = 2: two calls, of sizes 2 and 1.
C1_Witness ==
    /\ pc = "done"
    /\ BatchSize = 2
    /\ Uniform
    /\ Len(Produced) = 3
    /\ Len(Calls) = 2
    /\ Len(Members(Calls[1])) = 2
    /\ Len(Members(Calls[2])) = 1

\* C2: every DeleteObjects call carries at most BatchSize members, for every
\* BatchSize the engine can be configured with (0 and negatives included).
C2_AtMostBatchSize ==
    \A i \in 1..Len(Calls) : Len(Members(Calls[i])) <= BatchSize

\* C3: without request options, all candidates whose keys are in one call have
\* the same bucket, MFA token and request-payer mode, and the call's own
\* fields equal those of the first candidate added to the batch.
C3_Parity ==
    opts = << >> =>
        \A i \in 1..Len(Calls) :
            Len(Members(Calls[i])) > 0 =>
                LET first == CandidateOfKey(Members(Calls[i])[1].Key).Object
                IN  /\ \A k \in MemberKeys(Calls[i]) :
                         SameRequestFields(CandidateOfKey(k).Object, first)
                    /\ SameRequestFields(Calls[i].input, first)

\* A call with two members that carry an MFA token, after an earlier call.
C3_Witness ==
    /\ Len(Calls) = 2
    /\ Len(Members(Calls[2])) = 2
    /\ Calls[2].input.MFA # Nil
    /\ Calls[1].input.MFA = Nil

\* The candidate differs from the request in bucket, MFA or request-payer.
Differs(in, obj) == ~SameRequestFields(in, obj.Object)

\* Delete is flushing the open batch because the current candidate broke
\* parity with it.
BreakFlush ==
    /\ pc \in {"call", "hooks"}
    /\ ~final
    /\ Differs(Deref(input), Deref(o))

\* Buckets A, A, B under the default batch size: calls {1, 2} then {3}.
C4_Example ==
    (/\ pc = "done"
     /\ run = 1
     /\ iter.kind = "static"
     /\ BatchSize = DefaultBatchSize
     /\ [i \in 1..Len(iter.Objects) |-> iter.Objects[i].Object.Bucket]
            = << Ptr("A"), Ptr("A"), Ptr("B") >>
     /\ \A i \in 1..2 : SameRequestFields(iter.Objects[i].Object,
                                          iter.Objects[1].Object)) =>
        /\ Len(Calls) = 2
        /\ [i \in 1..2 |-> Members(Calls[1])[i].Key] = << Ptr(1), Ptr(2) >>
        /\ [i \in 1..1 |-> Members(Calls[2])[i].Key] = << Ptr(3) >>

\* C4: when the candidate just pulled differs from the open batch in bucket,
\* MFA or request-payer, Delete issues the open batch with exactly the members
\* accumulated so far, before pulling any further candidate, and the
\* candidate becomes the first member of a fresh open batch.
C4_ParityBreakFlush ==
    [][ /\ (pc = "body" /\ input # Nil
               /\ Differs(Deref(input), IterDeleteObject(iter))) =>
               /\ pc' = "call"
               /\ ~final'
               /\ input' = input
               /\ o' = Ptr(IterDeleteObject(iter))
        /\ BreakFlush => iter' = iter /\ Produced' = Produced
        /\ (BreakFlush /\ pc = "call") =>
               /\ Len(Calls') = Len(Calls) + 1
               /\ Calls'[Len(Calls')].input = Deref(input)
        /\ (BreakFlush /\ pc' = "next") =>
               /\ input' # Nil
               /\ Members([input |-> Deref(input')])
                      = << ObjectIdentifier(Deref(o).Object) >>
               /\ SameRequestFields(Deref(input'), Deref(o).Object)
               /\ objects' = << Deref(o) >>
        /\ C4_Example'
      ]_vars

\* A batch of two members, below the batch size, was just flushed by a parity
\* break and the candidate that broke parity seeds the new open batch.
C4_Witness ==
    /\ pc = "next"
    /\ BatchSize = DefaultBatchSize
    /\ Len(Calls) = 1
    /\ Len(Members(Calls[1])) = 2
    /\ input # Nil
    /\ Differs(Calls[1].input, Deref(o))
    /\ Members([input |-> Deref(input)]) = << ObjectIdentifier(Deref(o).Object) >>

\* The number of times the After hook of the candidate with key k has run.
HookCount(k) ==
    Len(SelectSeq(trace, LAMBDA e : e.type = "hook" /\ e.object.Object.Key = k))

\* C5: by the time Delete returns, the After hook of every candidate the
\* source produced has run exactly once (and never more than once before),
\* whatever the outcome of its batch and however it entered the batch.
C5_HooksOnce ==
    \A i \in 1..Len(Produced) :
        LET c == Produced[i].object
        IN  /\ HookCount(c.Object.Key) <= (IF c.After THEN 1 ELSE 0)
            /\ pc = "done" => HookCount(c.Object.Key) = (IF c.After THEN 1 ELSE 0)

\* Delete has returned; the second call failed wholesale and its first member,
\* which carries a hook, seeded the batch after a parity break; the first call
\* reported a key with a hook as failing.
C5_Witness ==
    /\ pc = "done"
    /\ Len(Calls) = 2
    /\ Calls[1].err = Nil
    /\ Len(Calls[1].Errors) = 1
    /\ CandidateOfKey(Calls[1].Errors[1].Key).After
    /\ Calls[2].err # Nil
    /\ CandidateOfKey(Members(Calls[2])[1].Key).After
    /\ Differs(Calls[1].input, CandidateOfKey(Members(Calls[2])[1].Key))

\* The keys of a call's members whose candidates carry an After hook, in the
\* order the candidates were added to the batch.
HookedKeys(call) ==
    LET hooked == SelectSeq(Members(call),
                            LAMBDA m : CandidateOfKey(m.Key).After)
    IN  [j \in 1..Len(hooked) |-> hooked[j].Key]

\* C6: the After hooks of a batch's candidates run right after the batch's
\* DeleteObjects call has returned, in the order the candidates were added,
\* and before any later call starts; no hook runs at any other time.
C6_HookOrder ==
    \A p \in 1..Len(trace) :
        /\ trace[p].type = "call" =>
             LET hk == HookedKeys(trace[p])
             IN  /\ \A j \in 1..Len(hk) :
                      p + j <= Len(trace) =>
                          /\ trace[p + j].type = "hook"
                          /\ trace[p + j].object.Object.Key = hk[j]
                 /\ p + Len(hk) + 1 <= Len(trace) =>
                      trace[p + Len(hk) + 1].type # "hook"
                 /\ pc # "hooks" => p + Len(hk) <= Len(trace)
        /\ trace[p].type = "hook" => p > 1 /\ trace[p - 1].type \in {"call", "hook"}

\* A call whose two hooked members' hooks have run, followed by a later call.
C6_Witness ==
    \E p \in 1..Len(trace) :
        /\ trace[p].type = "call"
        /\ Len(HookedKeys(trace[p])) = 2
        /\ \E q \in (p + 3)..Len(trace) : trace[q].type = "call"

\* The hooks that have failed so far, in the order they ran.
FailedHooks == SelectSeq(trace, LAMBDA e : e.type = "hook" /\ e.failed)

\* The position in production order of the candidate with key k.
ProducedIndex(k) ==
    CHOOSE i \in 1..Len(Produced) : Produced[i].object.Object.Key = k

\* C7: each failing After hook adds exactly one Error, carrying the hook's
\* error and the candidate's bucket and key; the hooks of the later candidates
\* still run and the later candidates are still sent.
C7_HookFailure ==
    pc = "done" =>
        /\ SelectSeq(ResultErrors, LAMBDA e : e.OrigErr = HookError)
             = [i \in 1..Len(FailedHooks) |->
                    [OrigErr |-> HookError,
                     Bucket |-> FailedHooks[i].object.Object.Bucket,
                     Key |-> FailedHooks[i].object.Object.Key]]
        /\ \A p \in 1..Len(trace) :
             (trace[p].type = "hook" /\ trace[p].failed) =>
                 \A j \in (ProducedIndex(trace[p].object.Object.Key) + 1)
                              ..Len(Produced) :
                     LET c == Produced[j].object
                     IN  /\ \E i \in 1..Len(Calls) : c.Object.Key \in MemberKeys(Calls[i])
                         /\ c.After =>
                              \E q \in (p + 1)..Len(trace) :
                                  /\ trace[q].type = "hook"
                                  /\ trace[q].object.Object.Key = c.Object.Key

\* Delete has returned; a hook failed, the hook of the next candidate of the
\* same batch ran after it, and a later batch was sent.
C7_Witness ==
    /\ pc = "done"
    /\ \E p \in 1..Len(trace) :
         /\ trace[p].type = "hook"
         /\ trace[p].failed
         /\ p + 1 <= Len(trace)
         /\ trace[p + 1].type = "hook"
         /\ \E q \in (p + 2)..Len(trace) : trace[q].type = "call"

\* The calls that failed wholesale, in issue order.
FailedCalls == SelectSeq(Calls, LAMBDA c : c.err # Nil)

\* C8: a call that fails wholesale yields exactly one Error per member, each
\* with the call's error, the batch's bucket and the member's key; Delete
\* goes on pulling candidates and every produced candidate is sent.
C8_CallFailure ==
    pc = "done" =>
        /\ SelectSeq(ResultErrors, LAMBDA e : e.OrigErr = RequestError)
             = Flatten([i \in 1..Len(FailedCalls) |->
                    [j \in 1..Len(Members(FailedCalls[i])) |->
                        [OrigErr |-> Deref(FailedCalls[i].err),
                         Bucket |-> FailedCalls[i].input.Bucket,
                         Key |-> Members(FailedCalls[i])[j].Key]]])
        /\ \A p \in 1..Len(trace) :
             (trace[p].type = "call" /\ trace[p].err # Nil) =>
                 \/ \E q \in 1..(p - 1) : trace[q].type = "end"
                 \/ \E q \in (p + 1)..Len(trace) : trace[q].type \in {"object", "end"}
        /\ (iter.kind = "static" /\ \E i \in 1..Len(Calls) : Calls[i].err # Nil) =>
             /\ Len(Produced) = Len(iter.Objects)
             /\ \A j \in 1..Len(Produced) :
                  \E i \in 1..Len(Calls) :
                      Produced[j].object.Object.Key \in MemberKeys(Calls[i])

\* Delete has returned; a call with two members failed wholesale and a later
\* call was issued.
C8_Witness ==
    /\ pc = "done"
    /\ Len(Calls) = 2
    /\ Calls[1].err # Nil
    /\ Len(Members(Calls[1])) = 2
    /\ Len(Members(Calls[2])) = 1

\* The Error deleteBatch is to record for one reported failing key.
ReportedError(call, e) ==
    [OrigErr |-> [Code |-> IF e.Code = Nil THEN "DeleteBatchError"
                                           ELSE Deref(e.Code),
                  Message |-> IF e.Message = Nil THEN "failed to delete"
                                                 ELSE Deref(e.Message)],
     Bucket |-> call.input.Bucket,
     Key |-> e.Key]

\* C9: a successful call whose response reports k failing keys yields exactly
\* k Errors, each with the reported key and the server's code and message, a
\* missing code replaced by "DeleteBatchError" and a missing message by
\* "failed to delete", independently. Three candidates whose second call (one
\* member) reports one key with code "AccessDenied", all else succeeding,
\* yield a BatchError with exactly one Error, of that code.
C9_ReportedKeys ==
    pc = "done" =>
        /\ SelectSeq(ResultErrors,
                     LAMBDA e : e.OrigErr \notin {RequestError, HookError, ListError})
             = Flatten([i \in 1..Len(Calls) |->
                    IF Calls[i].err # Nil THEN << >>
                    ELSE [j \in 1..Len(Calls[i].Errors) |->
                            ReportedError(Calls[i], Calls[i].Errors[j])]])
        /\ (/\ Len(Produced) = 3
            /\ Len(Calls) = 2
            /\ Len(Members(Calls[2])) = 1
            /\ Calls[1].err = Nil /\ Calls[1].Errors = << >>
            /\ Calls[2].err = Nil /\ Len(Calls[2].Errors) = 1
            /\ Calls[2].Errors[1].Code = Ptr("AccessDenied")
            /\ FailedHooks = << >>
            /\ IterErr(iter) = Nil) =>
               /\ result # Nil
               /\ Len(ResultErrors) = 1
               /\ ResultErrors[1].OrigErr.Code = "AccessDenied"

\* Delete has returned; one response reported two keys, the first without a
\* code but with a message, the second with a code but without a message.
C9_Witness ==
    /\ pc = "done"
    /\ \E i \in 1..Len(Calls) :
         /\ Calls[i].err = Nil
         /\ Len(Calls[i].Errors) = 2
         /\ Calls[i].Errors[1].Code = Nil /\ Calls[i].Errors[1].Message # Nil
         /\ Calls[i].Errors[2].Code # Nil /\ Calls[i].Errors[2].Message = Nil

\* The call succeeded for all its members: no error, no failing key reported
\* and no hook of its members failed.
Succeeded(call) ==
    /\ call.err = Nil
    /\ call.Errors = << >>
    /\ \A i \in 1..Len(FailedHooks) :
         FailedHooks[i].object.Object.Key \notin MemberKeys(call)

\* C10: when the source stops with a non-nil Err(), the result holds exactly
\* one Error for the iteration failure, with nil bucket and nil key, and no
\* Error for any candidate of a batch that succeeded.
C10_IterationFailure ==
    (pc = "done" /\ IterErr(iter) # Nil) =>
        /\ result # Nil
        /\ Len(SelectSeq(ResultErrors, LAMBDA e : e.Bucket = Nil /\ e.Key = Nil)) = 1
        /\ \A i \in 1..Len(ResultErrors) :
             (ResultErrors[i].OrigErr = Deref(IterErr(iter))) <=>
                 (ResultErrors[i].Bucket = Nil /\ ResultErrors[i].Key = Nil)
        /\ \A i \in 1..Len(Calls) :
             Succeeded(Calls[i]) =>
                 \A j \in 1..Len(ResultErrors) :
                     ResultErrors[j].Key \notin MemberKeys(Calls[i])

\* Delete has returned; a batch succeeded inside the loop, then a page fetch
\* failed.
C10_Witness ==
    /\ pc = "done"
    /\ IterErr(iter) # Nil
    /\ \E p \in 1..Len(trace) :
         /\ trace[p].type = "call"
         /\ Succeeded(trace[p])
         /\ \E q \in (p + 1)..Len(trace) : trace[q].type = "end"

\* The source has stopped: Next has returned false in this invocation.
Ended == \E p \in 1..Len(trace) : trace[p].type = "end"

\* The position of the event of Next returning false.
EndIndex == CHOOSE p \in 1..Len(trace) : trace[p].type = "end"

\* The calls issued after the source stopped.
CallsAfterEnd ==
    SelectSeq(SubSeq(trace, EndIndex + 1, Len(trace)), LAMBDA e : e.type = "call")

\* The keys sent by the calls issued before the source stopped.
KeysSentBeforeEnd ==
    UNION { MemberKeys(trace[p]) :
              p \in { q \in 1..EndIndex : trace[q].type = "call" } }

\* The candidates in the open batch when the source stopped, in the order
\* they were produced.
OpenAtEnd ==
    SelectSeq(Produced, LAMBDA e : e.object.Object.Key \notin KeysSentBeforeEnd)

\* The hooks that ran after the source stopped.
HooksAfterEnd ==
    SelectSeq(SubSeq(trace, EndIndex + 1, Len(trace)), LAMBDA e : e.type = "hook")

\* C11: once the source has stopped with a non-nil Err(), no further candidate
\* is pulled; the candidates that were in the open batch at that point are
\* sent in one DeleteObjects call, and their After hooks run, before Delete
\* returns.
C11_OpenBatchSent ==
    (Ended /\ IterErr(iter) # Nil) =>
        /\ \A p \in (EndIndex + 1)..Len(trace) : trace[p].type \notin {"object", "end"}
        /\ Len(CallsAfterEnd) <= 1
        /\ pc \in {"return", "done"} =>
              /\ Len(CallsAfterEnd) = (IF OpenAtEnd = << >> THEN 0 ELSE 1)
              /\ OpenAtEnd # << >> =>
                    Members(CallsAfterEnd[1])
                      = [i \in 1..Len(OpenAtEnd) |->
                            ObjectIdentifier(OpenAtEnd[i].object.Object)]
              /\ [i \in 1..Len(HooksAfterEnd) |-> HooksAfterEnd[i].object]
                    = SelectSeq([i \in 1..Len(OpenAtEnd) |-> OpenAtEnd[i].object],
                                LAMBDA c : c.After)

\* Delete has returned; one candidate was in the open batch when a page fetch
\* failed, and it was sent after that.
C11_Witness ==
    /\ pc = "done"
    /\ run = 1
    /\ IterErr(iter) # Nil
    /\ Len(OpenAtEnd) = 1
    /\ Len(CallsAfterEnd) = 1
    /\ MemberKeys(CallsAfterEnd[1]) = { OpenAtEnd[1].object.Object.Key }

\* The Errors one DeleteObjects call yields: one per member when it failed
\* wholesale, else one per reported key.
ErrorsOfCall(c) ==
    IF c.err # Nil
    THEN [i \in 1..Len(Members(c)) |->
            newError(Deref(c.err), c.input.Bucket, Members(c)[i].Key)]
    ELSE [i \in 1..Len(c.Errors) |-> ReportedError(c, c.Errors[i])]

\* The Errors an event of the trace yields; the source stopping yields one
\* when its Err() is non-nil.
ErrorsOfEvent(e) ==
    CASE e.type = "call" -> ErrorsOfCall(e)
      [] e.type = "hook" ->
            IF e.failed
            THEN << newError(HookError, e.object.Object.Bucket,
                             e.object.Object.Key) >>
            ELSE << >>
      [] e.type = "end" ->
            IF IterErr(iter) # Nil
            THEN << newError(Deref(IterErr(iter)), Nil, Nil) >>
            ELSE << >>
      [] OTHER -> << >>

\* The events of calls and hooks, in order.
BatchEvents == SelectSeq(trace, LAMBDA e : e.type \in {"call", "hook"})

\* C12 as stated: the Errors are those of the batches in issue order, a
\* batch's call-level or per-key errors before its hook errors, and the
\* errors of the final partial batch precede the iteration-failure entry,
\* which comes last.
C12_StepOrder ==
    pc = "done" =>
        ResultErrors
          = Flatten([p \in 1..Len(BatchEvents) |-> ErrorsOfEvent(BatchEvents[p])])
              \o ErrorsOfEvent([type |-> "end"])

\* C12 amended: the Errors are listed in the order Delete met them: those of
\* the batches flushed inside the loop in issue order, a batch's call-level
\* or per-key errors before its hook errors, then the iteration-failure
\* entry, then the errors of the batch sent after the loop.
C12_EncounterOrder ==
    pc = "done" =>
        ResultErrors = Flatten([p \in 1..Len(trace) |-> ErrorsOfEvent(trace[p])])

\* Delete has returned; a page fetch failed and the call sent after the loop
\* failed too: the iteration failure is the first Error, the call's the
\* second.
C12_Witness ==
    /\ pc = "done"
    /\ run = 1
    /\ IterErr(iter) # Nil
    /\ Len(CallsAfterEnd) = 1
    /\ CallsAfterEnd[1].err # Nil
    /\ Len(ResultErrors) = 2
    /\ ResultErrors[1].Key = Nil
    /\ ResultErrors[2].Key # Nil

\* Something failed during this invocation: a call, a reported key, a hook,
\* or the source.
SomethingFailed ==
    \/ \E p \in 1..Len(trace) :
          \/ trace[p].type = "call"
               /\ \/ trace[p].err # Nil /\ Len(Members(trace[p])) > 0
                  \/ trace[p].err = Nil /\ Len(trace[p].Errors) > 0
          \/ trace[p].type = "hook" /\ trace[p].failed
    \/ Ended /\ IterErr(iter) # Nil

\* C13: Delete returns nil if and only if nothing failed during the
\* invocation; otherwise it returns one BatchError with code
\* "BatchedDeleteIncomplete", which exists only once Delete has returned. A
\* source with no candidate and no error makes Delete return nil without any
\* DeleteObjects call.
C13_NilIffNoError ==
    /\ pc # "done" => result = Nil
    /\ pc = "done" =>
          /\ result = Nil <=> ~SomethingFailed
          /\ result # Nil =>
                /\ Len(result) = 1
                /\ Deref(result).code = "BatchedDeleteIncomplete"
                /\ Len(Deref(result).Errors) > 0
          /\ (Produced = << >> /\ IterErr(iter) = Nil) =>
                result = Nil /\ Calls = << >>

\* Delete has returned nil after two calls that succeeded.
C13_Witness ==
    /\ pc = "done"
    /\ run = 1
    /\ Len(Calls) = 2
    /\ ~SomethingFailed
    /\ result = Nil

\* The calls that returned without error.
AnsweredCalls == SelectSeq(Calls, LAMBDA c : c.err = Nil)

\* C14: the number of Errors in the result is the number of members of the
\* calls that failed wholesale, plus the number of keys the answered calls
\* reported as failing, plus the number of After hooks that failed, plus one
\* when the source's Err() is non-nil.
C14_ErrorCount ==
    pc = "done" =>
        Len(ResultErrors)
          = Len(Flatten([i \in 1..Len(FailedCalls) |-> Members(FailedCalls[i])]))
            + Len(Flatten([i \in 1..Len(AnsweredCalls) |-> AnsweredCalls[i].Errors]))
            + Len(FailedHooks)
            + (IF IterErr(iter) # Nil THEN 1 ELSE 0)

\* Delete has returned two Errors: a call reported two failing keys.
C14_Witness ==
    /\ pc = "done"
    /\ run = 1
    /\ Len(ResultErrors) = 2
    /\ \E i \in 1..Len(AnsweredCalls) : Len(AnsweredCalls[i].Errors) = 2

\* The position of the call that was in flight when the context was
\* cancelled: the first call that failed with the context's error.
CancelledCallIndex ==
    CHOOSE p \in 1..Len(trace) :
        /\ trace[p].type = "call" /\ trace[p].err = Ptr(CanceledError)
        /\ \A q \in 1..(p - 1) :
             ~(trace[q].type = "call" /\ trace[q].err = Ptr(CanceledError))

\* C15: when the context is cancelled while a DeleteObjects call is in
\* flight, the result gets one Error per member of that call, and after that
\* call Delete pulls no further candidate and issues no further call.
C15_CancelStops ==
    (run = 1 /\ ctx = "cancelled") =>
        /\ \A q \in (CancelledCallIndex + 1)..Len(trace) :
              trace[q].type \notin {"object", "call"}
        /\ pc = "done" =>
              SelectSeq(ResultErrors, LAMBDA e : e.OrigErr = CanceledError)
                = ErrorsOfCall(trace[CancelledCallIndex])

\* C16: once the context passed to Delete is cancelled, the paginated source
\* fetches no further page successfully.
C16_NoFetchAfterCancel ==
    [][ctx = "cancelled" => iter'.fetched = iter.fetched]_vars

\* The keys of the candidates the source has produced since it was built,
\* over all invocations of Delete, in production order.
ProducedKeys ==
    LET all == SelectSeq(past \o trace, LAMBDA e : e.type = "object")
    IN  [i \in 1..Len(all) |-> all[i].object.Object.Key]

\* The keys of the first n pages of the listing, in listing order.
KeysOfPages(n) ==
    LET objs == Flatten(SubSeq(iter.pages, 1, n))
    IN  [i \in 1..Len(objs) |-> objs[i].Key]

\* s is an initial segment of t.
IsPrefix(s, t) == Len(s) <= Len(t) /\ s = SubSeq(t, 1, Len(s))

\* C17: the paginated source produces the objects of the listing's pages
\* once each and in listing order, and when its Next has returned false
\* without error no further page exists and every object of every page has
\* been produced.
C17_ListComplete ==
    iter.kind = "list" =>
        /\ IsPrefix(ProducedKeys, KeysOfPages(Len(iter.pages)))
        /\ (Ended /\ IterErr(iter) = Nil) =>
              /\ ~HasMorePages(iter)
              /\ ProducedKeys = KeysOfPages(Len(iter.pages))

\* The step in which a page fetch of the paginated source fails: Next
\* returns false although a page is left, and no page was fetched.
FetchFailedStep ==
    /\ pc = "next" /\ pc' = "drain"
    /\ iter.kind = "list"
    /\ iter'.fetched = iter.fetched
    /\ HasMorePages(iter')

\* C18: when a page fetch fails, Next returns false and Err() is the fetch
\* error; the objects produced so far are exactly those of the pages fetched
\* before, once each and in order; no object of a page that was not fetched
\* is ever produced; Err() becomes non-nil only by a failed fetch.
C18_FetchFailure ==
    [][ /\ FetchFailedStep =>
              /\ IterErr(iter') = Ptr(ListError)
              /\ ProducedKeys' = KeysOfPages(iter.fetched)
        /\ (IterErr(iter) = Nil /\ IterErr(iter') # Nil) => FetchFailedStep
        /\ iter.kind = "list" =>
              IsPrefix(ProducedKeys', KeysOfPages(iter'.fetched))
      ]_vars

\* The fetch of the second page has just failed, after the two objects of the
\* first page were produced.
C18_Witness ==
    /\ pc = "drain"
    /\ run = 1
    /\ iter.kind = "list"
    /\ iter.err = Ptr(ListError)
    /\ iter.fetched = 1
    /\ HasMorePages(iter)
    /\ Len(ProducedKeys) = 2

\* The candidates the source has produced since it was built, over all
\* invocations of Delete, in production order.
ProducedObjects ==
    LET all == SelectSeq(past \o trace, LAMBDA e : e.type = "object")
    IN  [i \in 1..Len(all) |-> all[i].object]

\* C19: the static source over n candidates produces, by its successive
\* calls to Next that return true, the list's elements in index order;
\* Next returns false only once all n have been produced (at once when n = 0),
\* and Err() is nil throughout.
C19_StaticSource ==
    iter.kind = "static" =>
        /\ IterErr(iter) = Nil
        /\ IsPrefix(ProducedObjects, iter.Objects)
        /\ Ended => ProducedObjects = iter.Objects
        /\ (~Ended /\ run = 1 /\ pc = "next") => Len(ProducedObjects) = iter.index + (IF iter.inc THEN 1 ELSE 0)

\* Next has returned false in the first invocation, after three candidates.
C19_Witness ==
    /\ iter.kind = "static"
    /\ run = 1
    /\ pc = "drain"
    /\ Len(iter.Objects) = 3
    /\ Len(Produced) = 3

\* C20: once Next has returned false, it never returns true again: an
\* invocation of Delete on an iterator that an earlier invocation has used up
\* gets no candidate and issues no DeleteObjects call.
C20_StaysTerminated ==
    run > 1 => (Produced = << >> /\ Calls = << >>)

\* The results of the earlier invocations of Delete, in order.
PastResults ==
    LET rs == SelectSeq(past, LAMBDA e : e.type = "return")
    IN  [i \in 1..Len(rs) |-> rs[i].result]

\* C21: when no call failed or reported a failing key and no After hook
\* failed, every invocation of Delete over the same static list has returned
\* nil, the first and the later ones alike.
C21_Idempotent ==
    (pc = "done" /\ faults = 0) =>
        /\ result = Nil
        /\ \A i \in 1..Len(PastResults) : PastResults[i] = Nil

\* The second invocation over the same three candidates has returned nil
\* after sending them again; so had the first.
C21_Witness ==
    /\ pc = "done"
    /\ faults = 0
    /\ run = 2
    /\ PastResults = << Nil >>
    /\ result = Nil
    /\ Len(Produced) = 3
    /\ Len(Flatten([i \in 1..Len(Calls) |-> Members(Calls[i])])) = 3
    /\ Len(SelectSeq(past, LAMBDA e : e.type = "call")) = Len(Calls)

\* C22: once the source is exhausted, the open batch is sent in exactly one
\* call if it has a member, and no call is issued if it has none; no call
\* is ever issued after that one. With uniform candidates whose number is a
\* multiple of BatchSize no call follows the exhaustion.
C22_FinalFlush ==
    (Ended /\ IterErr(iter) = Nil) =>
        /\ Len(CallsAfterEnd) <= 1
        /\ \A i \in 1..Len(CallsAfterEnd) :
              MemberKeys(CallsAfterEnd[i])
                = { OpenAtEnd[j].object.Object.Key : j \in 1..Len(OpenAtEnd) }
        /\ pc \in {"return", "done"} =>
              Len(CallsAfterEnd) = (IF OpenAtEnd = << >> THEN 0 ELSE 1)
        /\ (Uniform /\ BatchSize >= 1 /\ Len(Produced) % BatchSize = 0) =>
              CallsAfterEnd = << >>

\* Delete has returned after three candidates with batch size 2: the third
\* was sent alone after the exhaustion.
C22_Witness ==
    /\ pc = "done"
    /\ run = 1
    /\ IterErr(iter) = Nil
    /\ BatchSize = 2
    /\ Len(Produced) = 3
    /\ Len(Calls) = 2
    /\ Len(CallsAfterEnd) = 1
    /\ Len(Members(CallsAfterEnd[1])) = 1

\* The members of the open batch (none when no request is open).
OpenMembers == IF input = Nil THEN << >> ELSE Deref(input).Delete.Objects

\* The keys produced in this invocation and not sent in any call so far, in
\* production order.
UnsentKeys ==
    LET unsent == SelectSeq(Produced, LAMBDA e :
                      \A i \in 1..Len(Calls) :
                          e.object.Object.Key \notin MemberKeys(Calls[i]))
    IN  [i \in 1..Len(unsent) |-> unsent[i].object.Object.Key]

\* C25: for BatchSize >= 1, whenever Delete is about to call the source's
\* Next, the open batch holds fewer than BatchSize members, and the
\* candidates not sent yet are exactly the members of that one open batch.
C25_OneOpenBatch ==
    (pc = "next" /\ BatchSize >= 1) =>
        /\ Len(OpenMembers) < BatchSize
        /\ [i \in 1..Len(OpenMembers) |-> OpenMembers[i].Key] = UnsentKeys

\* The members of all calls of this invocation, in issue order.
AllMembers == Flatten([i \in 1..Len(Calls) |-> Members(Calls[i])])

\* The (key, version id) pairs of the candidates produced in this
\* invocation, in production order.
ProducedPairs ==
    [i \in 1..Len(Produced) |->
        [Key |-> Produced[i].object.Object.Key,
         VersionId |-> Produced[i].object.Object.VersionId]]

\* C26: the members of the calls of one invocation, concatenated in issue
\* order, are always an initial segment of the (key, version id) pairs of
\* the produced candidates in production order, and are all of them once
\* Delete has returned: every candidate is a member of exactly one call.
C26_OrderAndCoverage ==
    /\ IsPrefix(AllMembers, ProducedPairs)
    /\ pc \in {"return", "done"} => AllMembers = ProducedPairs

\* Delete has returned after a parity break that flushed one candidate and a
\* size-triggered flush of the two that followed.
C26_Witness ==
    /\ pc = "done"
    /\ run = 1
    /\ BatchSize = 2
    /\ Len(Produced) = 3
    /\ Len(Calls) = 2
    /\ Len(Members(Calls[1])) = 1
    /\ Len(Members(Calls[2])) = 2
    /\ Calls[1].input.Bucket # Calls[2].input.Bucket
    /\ \E i \in 1..3 : ProducedPairs[i].VersionId # Nil

\* C23: Filter returns a non-nil error exactly when the share's Status is
\* not ACTIVE.
C23_FilterActive ==
    ramPc = "filtered" =>
        (Deref(ramRet).err # Nil <=> Deref(share).Status # "ACTIVE")

\* Filter has returned an error for a share that is being deleted.
C23_Witness ==
    /\ ramPc = "filtered"
    /\ Deref(share).Status = "DELETING"
    /\ Deref(ramRet).err # Nil

\* All shares of the service's listing, in response order across the pages.
AllShares == Flatten(svc)

\* C24: when List returns without error it has requested every page, the
\* first without a token and each later one with the token of the response
\* before, and returns one resource per listed share of any status, in
\* response order; when a request fails it returns that error and no
\* resource.
C24_ListAll ==
    ramPc = "returned" =>
        LET ret == Deref(ramRet)
        IN  /\ \A k \in 1..Len(ramCalls) :
                  /\ ramCalls[k].ResourceOwner = "SELF"
                  /\ ramCalls[k].NextToken = (IF k = 1 THEN Nil ELSE Ptr(k))
            /\ IF ret.err = Nil
               THEN /\ Len(ramCalls) = Len(svc)
                    /\ ret.resources
                         = [i \in 1..Len(AllShares) |->
                              [Name |-> AllShares[i].Name,
                               OwningAccountID |-> AllShares[i].OwningAccountId,
                               ResourceShareARN |-> AllShares[i].ResourceShareArn,
                               Status |-> AllShares[i].Status]]
               ELSE /\ ret.err = Ptr(ThrottlingError)
                    /\ ret.resources = Nil
                    /\ Len(ramCalls) <= Len(svc)

\* List has returned the three shares of two pages, two on the first, a
\* deleted and a deleting one among them.
C24_Witness ==
    /\ ramPc = "returned"
    /\ Deref(ramRet).err = Nil
    /\ Len(svc) = 2
    /\ Len(svc[1]) = 2
    /\ Len(Deref(ramRet).resources) = 3
    /\ Deref(ramRet).resources[1].Status = "DELETED"
    /\ Deref(ramRet).resources[2].Status = "DELETING"
    /\ Deref(ramRet).resources[3].Status = "ACTIVE"

\* No key is a member of two calls of this invocation, nor twice of one.
KeysSentOnce ==
    LET sent == AllMembers
    IN  \A i, j \in 1..Len(sent) : i # j => sent[i].Key # sent[j].Key

\* C27: whatever a DeleteObjects call answers, Delete goes on to the hooks
\* of its batch, having issued that one call, whose keys are distinct and
\* were in no earlier call of the invocation; no other step of the
\* invocation issues a call, none after Delete has returned in particular.
C27_NoRetry ==
    [][ /\ pc = "call" =>
               LET sent == AllMembers
                   call == trace'[Len(trace')]
                   new == Members(call)
               IN  /\ pc' = "hooks"
                   /\ call.type = "call"
                   /\ trace' = Append(trace, call)
                   /\ \A i, j \in 1..Len(new) : i # j => new[i].Key # new[j].Key
                   /\ \A i \in 1..Len(new), j \in 1..Len(sent) :
                          new[i].Key # sent[j].Key
        /\ (pc # "call" /\ run' = run) => Calls' = Calls
      ]_vars

\* Delete has returned after a call that failed wholesale and a call that
\* reported a failing key; neither was sent again.
C27_Witness ==
    /\ pc = "done"
    /\ run = 1
    /\ Len(Calls) = 2
    /\ Calls[1].err # Nil
    /\ Calls[2].err = Nil /\ Len(Calls[2].Errors) = 1
    /\ KeysSentOnce

\* C28: every invocation of Delete eventually returns, whatever calls, keys
\* and hooks fail and wherever parity breaks, for static lists and listings.
C28_Terminates == (pc # "done") ~> (pc = "done")

\* Delete has returned after a parity break, a call that failed wholesale
\* and a hook that failed.
C28_Witness ==
    /\ pc = "done"
    /\ run = 1
    /\ Len(Calls) >= 2
    /\ Calls[1].input.Bucket # Calls[2].input.Bucket
    /\ FailedCalls # << >>
    /\ FailedHooks # << >>

\* Two optional strings agree: both absent, or both present with one value.
OptionalAgree(p1, p2) ==
    \/ Len(p1) = 0 /\ Len(p2) = 0
    \/ Len(p1) = 1 /\ Len(p2) = 1 /\ p1[1] = p2[1]

\* C29: hasParity answers true exactly when request and candidate agree on
\* the bucket, on the MFA token (an absent token matching no present one,
\* not even the empty one) and on the request-payer mode, whatever the key,
\* the version id and the members already in the request.
C29_ParityFields ==
    pc = "parity" =>
        (parity <=>
            /\ OptionalAgree(Deref(input).Bucket, Deref(o).Object.Bucket)
            /\ OptionalAgree(Deref(input).MFA, Deref(o).Object.MFA)
            /\ Deref(input).RequestPayer = Deref(o).Object.RequestPayer)

\* hasParity has answered false for a request without MFA token and a
\* candidate with the empty token, bucket and request-payer mode agreeing.
C29_Witness ==
    /\ pc = "parity"
    /\ ~parity
    /\ Deref(input).MFA = Nil
    /\ Deref(o).Object.MFA = Ptr("")
    /\ Deref(input).Bucket = Ptr("A") /\ Deref(o).Object.Bucket = Ptr("A")
    /\ Deref(input).RequestPayer = "requester"
    /\ Deref(o).Object.RequestPayer = "requester"

\* A request and a candidate agree on bucket, MFA token and request payer.
AgreesWith(in, obj) ==
    /\ OptionalAgree(in.Bucket, obj.Bucket)
    /\ OptionalAgree(in.MFA, obj.MFA)
    /\ in.RequestPayer = obj.RequestPayer

\* C30 as stated: once an incompatible candidate has seeded a fresh batch
\* that is not full (BatchSize >= 2) and the candidate that follows has
\* parity with it, Delete can emit the batch with that one member.
C30_CanEmitAlone ==
    (/\ pc = "body"
     /\ BatchSize >= 2
     /\ input # Nil
     /\ ~parity
     /\ Len(OpenMembers) = 1
     /\ AgreesWith(ApplyOptions(opts, Deref(input)),
                   IterDeleteObject(iter).Object)) =>
        ENABLED (/\ LoopBody
                 /\ pc' = "call"
                 /\ Len(Deref(input').Delete.Objects) = 1)

\* C30 amended: with BatchSize >= 2, a batch emitted with exactly one member
\* ahead of a further candidate is never followed by a candidate that has
\* parity with it: that candidate differs from the request in bucket, MFA
\* token or request payer. What is not packed together is a pair of
\* compatible candidates with an incompatible one between them.
C30_FollowerBreaksParity ==
    BatchSize >= 2 =>
        \A k \in 2..Len(trace) :
            (/\ trace[k].type = "call"
             /\ Len(Members(trace[k])) = 1
             /\ trace[k - 1].type = "object"
             /\ trace[k - 1].object.Object.Key # Members(trace[k])[1].Key) =>
                ~AgreesWith(trace[k].input, trace[k - 1].object.Object)

\* Buckets A, B, A under the default batch size: B seeded a batch that was
\* emitted with B alone, the third candidate differing from it although it
\* agrees with the first call's request.
C30_Witness ==
    /\ pc = "done"
    /\ run = 1
    /\ BatchSize = DefaultBatchSize
    /\ Len(Calls) = 3
    /\ \A i \in 1..3 : Len(Members(Calls[i])) = 1
    /\ Calls[1].input.Bucket = Ptr("A")
    /\ Calls[2].input.Bucket = Ptr("B")
    /\ AgreesWith(Calls[1].input, Produced[3].object.Object)
    /\ ~AgreesWith(Calls[2].input, Produced[3].object.Object)

\* C31: every DeleteObjects call of the invocation has at least one member
\* and deleteBatch is given at least one candidate, also when request
\* options overwrite the bucket, the MFA token or the request payer.
C31_NoEmptyCall ==
    \A i \in 1..Len(Calls) :
        /\ Len(Members(Calls[i])) >= 1
        /\ Len(Calls[i].objects) >= 1

\* The requests that prepare the removal of a Route53 Resolver resource.
PreparatoryOps ==
    {"DisassociateFirewallRuleGroup", "DeleteFirewallRule",
     "DisassociateResolverQueryLogConfig"}

\* The first n requests disassociated every VPC association of the firewall
\* rule group, in the order of the list.
VPCsDisassociated(n) ==
    LET ids == Deref(r53).vpcAssociationIds
    IN  /\ n >= Len(ids)
        /\ \A i \in 1..Len(ids) :
              /\ r53Calls[i].op = "DisassociateFirewallRuleGroup"
              /\ r53Calls[i].input.FirewallRuleGroupAssociationId = ids[i]

\* The requests after those for the VPC associations and up to the n-th
\* deleted every rule of the firewall rule group, in the order of the list.
RulesDeleted(n) ==
    LET first == Len(Deref(r53).vpcAssociationIds)
        rules == Deref(r53).rules
    IN  /\ n = first + Len(rules)
        /\ \A i \in 1..Len(rules) :
              /\ r53Calls[first + i].op = "DeleteFirewallRule"
              /\ r53Calls[first + i].input.FirewallRuleGroupId = Deref(r53).ID
              /\ r53Calls[first + i].input.FirewallDomainListId
                    = rules[i].FirewallDomainListID

\* The first n requests disassociated every resource of the query log config.
ResourcesDisassociated(n) ==
    LET ids == Deref(r53).resourceAssociationIds
    IN  /\ n = Len(ids)
        /\ \A i \in 1..Len(ids) :
              /\ r53Calls[i].op = "DisassociateResolverQueryLogConfig"
              /\ r53Calls[i].input.ResolverQueryLogConfigId = Deref(r53).ID
              /\ r53Calls[i].input.ResourceId = ids[i]

\* C32: Remove deletes the firewall rule group only after it disassociated
\* every VPC association and then deleted every rule, and the query log
\* config only after it disassociated every resource; a preparatory request
\* answered with ResourceNotFoundException is passed over, and one answered
\* with another error is the last request, its error being what Remove
\* returns.
C32_DependentsFirst ==
    \A k \in 1..Len(r53Calls) :
        LET call == r53Calls[k]
        IN  /\ call.op = "DeleteFirewallRule" => VPCsDisassociated(k - 1)
            /\ call.op = "DeleteFirewallRuleGroup" =>
                   VPCsDisassociated(k - 1) /\ RulesDeleted(k - 1)
            /\ call.op = "DeleteResolverQueryLogConfig" =>
                   ResourcesDisassociated(k - 1)
            /\ call.op \in PreparatoryOps =>
                   IF call.err \in {Nil, Ptr(ResourceNotFoundException)}
                   THEN r53Pc = "returned" => k < Len(r53Calls)
                   ELSE /\ k = Len(r53Calls)
                        /\ r53Pc = "returned"
                        /\ r53Ret = Ptr([err |-> call.err])

\* Remove has deleted a firewall rule group of two VPC associations and two
\* rules, the first association and the second rule being gone already.
C32_Witness ==
    /\ r53Pc = "returned"
    /\ Len(r53Calls) = 5
    /\ r53Calls[1].err = Ptr(ResourceNotFoundException)
    /\ r53Calls[4].err = Ptr(ResourceNotFoundException)
    /\ r53Calls[5].op = "DeleteFirewallRuleGroup"
    /\ r53Calls[5].err = Nil
    /\ r53Ret = Ptr([err |-> Nil])

\* C33: Remove returns nil when DeleteResourceShare succeeded or answered
\* ResourceArnNotFoundException, and otherwise the error the request
\* answered.
C33_RemoveIgnoresNotFound ==
    ramPc = "removed" =>
        LET err == ramCalls[Len(ramCalls)].err
        IN  Deref(ramRet).err
              = (IF err \in {Nil, Ptr(ResourceArnNotFoundException)}
                 THEN Nil ELSE err)

====
